---- MODULE Spec2Model ----
(***************************************************************************)
(* EyeWitness: the decision engine (apps/api/src/services/decision-engine) *)
(* and the decision ledger (the /decisions routes with their in-memory     *)
(* Map).                                                                   *)
(*                                                                         *)
(* Representation of the program's values:                                 *)
(*   - a timestamp (Date, ISO string) is the integer number of             *)
(*     milliseconds it denotes; all clock reads of one handler return the  *)
(*     same instant `now`;                                                 *)
(*   - lastReply is the reply sent by the step that led to the state       *)
(*     (<<>> when that step sent none); replies keeps, for every answered  *)
(*     execute request, its status and the requests it overlapped;         *)
(*   - a nullable value is <<>> (null) or <<v>>;                           *)
(*   - sigma_*_km are integers (km); deltaV_mps is held in tenths of a     *)
(*     m/s, so sigma * 0.1 m/s is sigma tenths; improvements are held in   *)
(*     tenths of a km;                                                     *)
(*   - miss_distance_km is held in metres, pc in units of 1e-5, kp in      *)
(*     tenths;                                                             *)
(*   - a template string is the tuple of its parts;                        *)
(*   - of an alert's fields the model keeps those the code reads, and a    *)
(*     required field that is missing is null;                             *)
(*   - the Math.random() suffix of a decision id is a nonce that never     *)
(*     repeats.                                                            *)
(***************************************************************************)
EXTENDS Integers, Sequences, FiniteSets, TLC

VARIABLES decisions, now, nonce, thresholds, inflight, replies, nextRid,
          lastReply, engineIn, engineOut

vars == <<decisions, now, nonce, thresholds, inflight, replies, nextRid,
          lastReply, engineIn, engineOut>>

\* ---------------------------------------------------------------- bounds
MaxDecisions == 2
MaxClock == 1
MaxRequests == 2
MaxEvents == 2
MaxReadings == 2

\* ------------------------------------------------------------- constants
MsPerHour == 1000 * 60 * 60
HorizonHours == 72
KpWindowHours == 24
DeltaVPerSigma == 1
InPlaneCap == 100
OutOfPlaneCap == 50
InPlaneImprovementFactor == 100
OutOfPlaneImprovementFactor == 50

Null == <<>>
Some(v) == <<v>>
IsNull(x) == x = <<>>
Val(x) == x[1]
Min(a, b) == IF a < b THEN a ELSE b
Max(a, b) == IF a > b THEN a ELSE b

\* JavaScript truthiness of a nullable number: null and 0 are falsy.
Truthy(x) == ~IsNull(x) /\ Val(x) # 0

DEFAULT_THRESHOLDS ==
  [conjunction |-> [critical_pc |-> 10, warning_miss_distance_km |-> 1000],
   space_weather |-> [kp_warning |-> 60, cme_hours_to_eta_critical |-> 18]]

\* ------------------------------------------------------- decision engine
analyzeRICUncapped(sigmaRan, sigmaTan, sigmaNorm) ==
  LET inPlaneDeltaV == sigmaTan * DeltaVPerSigma
      outOfPlaneDeltaV == sigmaNorm * DeltaVPerSigma
  IN [inPlaneImprovement |-> inPlaneDeltaV * InPlaneImprovementFactor,
      outOfPlaneImprovement |-> outOfPlaneDeltaV * OutOfPlaneImprovementFactor,
      inPlaneDeltaV |-> inPlaneDeltaV,
      outOfPlaneDeltaV |-> outOfPlaneDeltaV]

analyzeRIC(sigmaRan, sigmaTan, sigmaNorm) ==
  LET inPlaneDeltaV == Min(sigmaTan * DeltaVPerSigma, InPlaneCap)
      outOfPlaneDeltaV == Min(sigmaNorm * DeltaVPerSigma, OutOfPlaneCap)
  IN [inPlaneImprovement |-> inPlaneDeltaV * InPlaneImprovementFactor,
      outOfPlaneImprovement |-> outOfPlaneDeltaV * OutOfPlaneImprovementFactor,
      inPlaneDeltaV |-> inPlaneDeltaV,
      outOfPlaneDeltaV |-> outOfPlaneDeltaV]

beyondHorizonInclusive(alert, t) ==
  (Val(alert.tca) - t) >= HorizonHours * MsPerHour

\* hoursToTca > 72, with hoursToTca = (tca - now) / (1000 * 60 * 60)
beyondHorizon(alert, t) == (Val(alert.tca) - t) > HorizonHours * MsPerHour

maneuverActions(alert, t) ==
  IF Truthy(alert.sigma_ran_km) /\ Truthy(alert.sigma_tan_km)
       /\ Truthy(alert.sigma_norm_km)
  THEN LET ricAnalysis == analyzeRIC(Val(alert.sigma_ran_km),
                                     Val(alert.sigma_tan_km),
                                     Val(alert.sigma_norm_km))
           inPlane ==
             IF ricAnalysis.inPlaneImprovement > 0
             THEN << [id |-> <<"maneuver", alert.primary_norad, t>>,
                      type |-> "maneuver",
                      deltaV_mps |-> Some(ricAnalysis.inPlaneDeltaV),
                      direction |-> Some("In-plane maneuver to increase miss distance"),
                      rationale |-> <<"In-plane", ricAnalysis.inPlaneDeltaV,
                                      ricAnalysis.inPlaneImprovement>>,
                      expected_risk_delta |-> Some(0 - ricAnalysis.inPlaneImprovement),
                      window_start |-> Some(t + 60 * 60 * 1000),
                      window_end |-> Some(Val(alert.tca) - 60 * 60 * 1000)] >>
             ELSE << >>
           outOfPlane ==
             IF ricAnalysis.outOfPlaneImprovement > 0
             THEN << [id |-> <<"maneuver", alert.primary_norad, t + 1>>,
                      type |-> "maneuver",
                      deltaV_mps |-> Some(ricAnalysis.outOfPlaneDeltaV),
                      direction |-> Some("Out-of-plane maneuver to increase miss distance"),
                      rationale |-> <<"Out-of-plane", ricAnalysis.outOfPlaneDeltaV,
                                      ricAnalysis.outOfPlaneImprovement>>,
                      expected_risk_delta |-> Some(0 - ricAnalysis.outOfPlaneImprovement),
                      window_start |-> Some(t + 60 * 60 * 1000),
                      window_end |-> Some(Val(alert.tca) - 60 * 60 * 1000)] >>
             ELSE << >>
       IN inPlane \o outOfPlane
  ELSE << >>

monitorActionWindowed(alert, t) ==
  [id |-> <<"monitor", alert.primary_norad, t>>,
   type |-> "monitor",
   deltaV_mps |-> Null,
   direction |-> Null,
   rationale |-> <<"Continue monitoring - no immediate action required">>,
   expected_risk_delta |-> Null,
   window_start |-> Some(t),
   window_end |-> Some(Val(alert.tca))]

monitorAction(alert, t) ==
  [id |-> <<"monitor", alert.primary_norad, t>>,
   type |-> "monitor",
   deltaV_mps |-> Null,
   direction |-> Null,
   rationale |-> <<"Continue monitoring - no immediate action required">>,
   expected_risk_delta |-> Null,
   window_start |-> Null,
   window_end |-> Null]

withMonitorFallbackAlways(alert, t, actions) ==
  Append(actions, monitorAction(alert, t))

withMonitorFallback(alert, t, actions) ==
  IF Len(actions) = 0 THEN Append(actions, monitorAction(alert, t))
  ELSE actions

analyzeConjunction(alert, th, t) ==
  IF beyondHorizon(alert, t) THEN << >>
  ELSE withMonitorFallback(alert, t, maneuverActions(alert, t))

cmeCriticalFutureOnly(etaStart, th, t) ==
  /\ (etaStart - t) >= 0
  /\ (etaStart - t) < th.space_weather.cme_hours_to_eta_critical * MsPerHour

\* hoursToEta < cme_hours_to_eta_critical, with
\* hoursToEta = (etaStart - now) / (1000 * 60 * 60)
cmeCritical(etaStart, th, t) ==
  (etaStart - t) < th.space_weather.cme_hours_to_eta_critical * MsPerHour

analyzeSpaceWeather(alert, th, t) ==
  LET kpActions ==
        IF Truthy(alert.kp) /\ Val(alert.kp) >= th.space_weather.kp_warning
        THEN << [id |-> <<"safe-mode-kp", t>>,
                 type |-> "safe_mode",
                 deltaV_mps |-> Null,
                 direction |-> Null,
                 rationale |-> <<"Kp index exceeds warning threshold",
                                 Val(alert.kp), th.space_weather.kp_warning>>,
                 expected_risk_delta |-> Null,
                 window_start |-> Some(t),
                 window_end |-> Some(t + KpWindowHours * 60 * 60 * 1000)] >>
        ELSE << >>
      cmeActions ==
        IF ~IsNull(alert.cme_eta_start) /\ ~IsNull(alert.cme_eta_end)
        THEN LET etaStart == Val(alert.cme_eta_start)
                 etaEnd == Val(alert.cme_eta_end)
             IN IF cmeCritical(etaStart, th, t)
                THEN << [id |-> <<"safe-mode-cme", t>>,
                         type |-> "safe_mode",
                         deltaV_mps |-> Null,
                         direction |-> Null,
                         rationale |-> <<"CME expected", etaStart - t,
                                         th.space_weather.cme_hours_to_eta_critical>>,
                         expected_risk_delta |-> Null,
                         window_start |-> Some(t),
                         window_end |-> Some(etaEnd)] >>
                ELSE << >>
        ELSE << >>
  IN kpActions \o cmeActions

\* --------------------------------------------- conjunction classification
HighBelowKm == 5
MediumBelowKm == 10

computeConjunctionRiskInclusive(missDistanceKm) ==
  IF missDistanceKm <= HighBelowKm * 1000 THEN "High"
  ELSE IF missDistanceKm <= MediumBelowKm * 1000 THEN "Medium"
  ELSE "Low"

computeConjunctionRiskSwapped(missDistanceKm) ==
  IF missDistanceKm < HighBelowKm * 1000 THEN "Medium"
  ELSE IF missDistanceKm < MediumBelowKm * 1000 THEN "High"
  ELSE "Low"

\* logic/risk computeConjunctionRisk; the distance is held in metres.
computeConjunctionRisk(missDistanceKm) ==
  IF missDistanceKm < HighBelowKm * 1000 THEN "High"
  ELSE IF missDistanceKm < MediumBelowKm * 1000 THEN "Medium"
  ELSE "Low"

conjunctionSeverityCloseOnly(alert, th) ==
  IF alert.miss_distance_km < th.conjunction.warning_miss_distance_km
  THEN IF Truthy(alert.pc) /\ Val(alert.pc) > th.conjunction.critical_pc
       THEN "Critical" ELSE "High"
  ELSE "Low"

\* The severity analyzeConjunction determines from miss distance and
\* probability (its local `severity`).
conjunctionSeverity(alert, th) ==
  LET byDistance ==
        IF alert.miss_distance_km < th.conjunction.warning_miss_distance_km
        THEN "High" ELSE "Low"
  IN IF Truthy(alert.pc) /\ Val(alert.pc) > th.conjunction.critical_pc
     THEN "Critical" ELSE byDistance

\* ---------------------------------------------------------- alert matcher
\* A string is the sequence of its characters.
UpperCaseLetters == <<"D", "E", "B", "H", "I", "M", "S", "T">>
LowerCaseLetters == <<"d", "e", "b", "h", "i", "m", "s", "t">>

\* String.prototype.toLowerCase
toLowerCase(str) ==
  [i \in 1..Len(str) |->
     IF \E k \in 1..Len(UpperCaseLetters) : UpperCaseLetters[k] = str[i]
     THEN LowerCaseLetters[CHOOSE k \in 1..Len(UpperCaseLetters) :
                             UpperCaseLetters[k] = str[i]]
     ELSE str[i]]

\* String.prototype.includes
includes(str, search) ==
  \E i \in 0..(Len(str) - Len(search)) :
    SubSeq(str, i + 1, i + Len(search)) = search

\* Math.abs
Abs(x) == IF x < 0 THEN 0 - x ELSE x

AltitudeBandKm == 50

altitudeMatchExclusive(event, satellite) ==
  Abs(event.altitudeKm - satellite.altitudeKm) < AltitudeBandKm

altitudeMatch(event, satellite) ==
  Abs(event.altitudeKm - satellite.altitudeKm) <= AltitudeBandKm

\* The documented matcher's name rule: case-insensitive substring
nameMatch(event, satellite) ==
  \/ includes(toLowerCase(event.objectA), toLowerCase(satellite.name))
  \/ includes(toLowerCase(event.objectB), toLowerCase(satellite.name))

\* The name-only matcher's name rule: case-insensitive equality
nameMatchExact(event, satellite) ==
  \/ toLowerCase(event.objectA) = toLowerCase(satellite.name)
  \/ toLowerCase(event.objectB) = toLowerCase(satellite.name)

\* Number.prototype.toFixed(1) of a distance held in metres: tenths of a km
toFixed1(metres) == (metres + 50) \div 100

conjunctionAlertTimedId(satellite, event, action, t) ==
  [id |-> <<"conj", satellite.id, t>>,
   type |-> "conjunction",
   severity |-> computeConjunctionRisk(event.missDistanceKm),
   satellite |-> satellite.name,
   message |-> <<"Close approach", event.objectA, event.objectB,
                 toFixed1(event.missDistanceKm)>>,
   suggestedAction |-> action,
   timestamp |-> t,
   acknowledged |-> FALSE]

conjunctionAlert(satellite, event, action, t) ==
  [id |-> <<"conj", satellite.id, event.tca>>,
   type |-> "conjunction",
   severity |-> computeConjunctionRisk(event.missDistanceKm),
   satellite |-> satellite.name,
   message |-> <<"Close approach", event.objectA, event.objectB,
                 toFixed1(event.missDistanceKm)>>,
   suggestedAction |-> action,
   timestamp |-> t,
   acknowledged |-> FALSE]

\* satellites.forEach(satellite => events.forEach(event => ...)): the pairs
\* in the order the two loops visit them
SatelliteEventPairs(satellites, events) ==
  [k \in 1..(Len(satellites) * Len(events)) |->
     [satellite |-> satellites[((k - 1) \div Len(events)) + 1],
      event |-> events[((k - 1) % Len(events)) + 1]]]

attachEventsToSatellitesPerRule(satellites, events, t) ==
  LET ByName(pair) == nameMatch(pair.event, pair.satellite)
      ByAltitude(pair) == altitudeMatch(pair.event, pair.satellite)
      pairs == SatelliteEventPairs(satellites, events)
      matched == SelectSeq(pairs, ByName) \o SelectSeq(pairs, ByAltitude)
      actionOf(risk) == IF risk = "High"
                        THEN "Suggest small plane-change burn"
                        ELSE "Monitor closely"
  IN [k \in 1..Len(matched) |->
        conjunctionAlert(
          matched[k].satellite, matched[k].event,
          actionOf(computeConjunctionRisk(matched[k].event.missDistanceKm)),
          t)]

\* The documented matcher (name substring or altitude band)
attachEventsToSatellites(satellites, events, t) ==
  LET Matches(pair) == nameMatch(pair.event, pair.satellite)
                         \/ altitudeMatch(pair.event, pair.satellite)
      matched == SelectSeq(SatelliteEventPairs(satellites, events), Matches)
      actionOf(risk) == IF risk = "High"
                        THEN "Suggest small plane-change burn"
                        ELSE "Monitor closely"
  IN [k \in 1..Len(matched) |->
        conjunctionAlert(
          matched[k].satellite, matched[k].event,
          actionOf(computeConjunctionRisk(matched[k].event.missDistanceKm)),
          t)]

\* The name-only matcher (name equality)
attachEventsToSatellitesByName(satellites, events, t) ==
  LET Matches(pair) == nameMatchExact(pair.event, pair.satellite)
      matched == SelectSeq(SatelliteEventPairs(satellites, events), Matches)
      actionOf(risk) ==
        IF risk = "High"
        THEN "Execute collision avoidance maneuver (plane-change burn)"
        ELSE IF risk = "Medium"
        THEN "Prepare for potential maneuver and monitor closely"
        ELSE "Monitor conjunction and update tracking"
  IN [k \in 1..Len(matched) |->
        conjunctionAlert(
          matched[k].satellite, matched[k].event,
          actionOf(computeConjunctionRisk(matched[k].event.missDistanceKm)),
          t)]

\* ---------------------------------------------------- space weather alerts
KpAlertLevel == 6

\* latest.kp >= 6 on the last reading; a NaN reading (null here) compares
\* false. Kp is held in tenths.
getSpaceWeatherAlert(kpList) ==
  IF Len(kpList) = 0 THEN FALSE
  ELSE LET latest == kpList[Len(kpList)]
       IN ~IsNull(latest.kp) /\ Val(latest.kp) >= KpAlertLevel * 10

spaceWeatherAlert(id, satellite, kp, action, t) ==
  [id |-> id,
   type |-> "space_weather",
   severity |-> "High",
   satellite |-> satellite,
   message |-> <<"Space weather alert: Kp index", kp>>,
   suggestedAction |-> action,
   timestamp |-> t,
   acknowledged |-> FALSE]

\* The documented createSpaceWeatherAlerts(kpList): one alert, of no
\* satellite
createSpaceWeatherAlertsSingle(satellites, kpList, t) ==
  IF ~getSpaceWeatherAlert(kpList) THEN << >>
  ELSE LET latest == kpList[Len(kpList)]
       IN << spaceWeatherAlert(<<"sw", latest.time>>, Null, Val(latest.kp),
                               "Suggest safe mode; postpone maneuvers", t) >>

createSpaceWeatherAlertsFirstOnly(satellites, kpList, t) ==
  IF ~getSpaceWeatherAlert(kpList) \/ Len(satellites) = 0 THEN << >>
  ELSE LET latest == kpList[Len(kpList)]
       IN << spaceWeatherAlert(
               <<"sw", satellites[1].id, latest.time>>,
               Some(satellites[1].name), Val(latest.kp),
               "Activate safe mode and postpone all maneuvers", t) >>

\* createSpaceWeatherAlerts(satellites, kpList): one alert per satellite
createSpaceWeatherAlerts(satellites, kpList, t) ==
  IF ~getSpaceWeatherAlert(kpList) THEN << >>
  ELSE LET latest == kpList[Len(kpList)]
       IN [i \in 1..Len(satellites) |->
             spaceWeatherAlert(
               <<"sw", satellites[i].id, latest.time>>,
               Some(satellites[i].name), Val(latest.kp),
               "Activate safe mode and postpone all maneuvers", t)]

\* ------------------------------------------------------------ the web app
\* handleAcknowledgeAlert: prev.map(alert => alert.id === id ? {...alert,
\* acknowledged: true} : alert)
handleAcknowledgeAlert(alerts, id) ==
  [k \in 1..Len(alerts) |->
     IF alerts[k].id = id THEN [alerts[k] EXCEPT !.acknowledged = TRUE]
     ELSE alerts[k]]

\* What loadData passes to setAlerts once both fetches have resolved
loadData(matcher, satellites, events, kpList, t) ==
  IF Len(satellites) = 0 THEN << >>
  ELSE LET conjunctionAlerts ==
             IF matcher = "attachEventsToSatellites"
             THEN attachEventsToSatellites(satellites, events, t)
             ELSE attachEventsToSatellitesByName(satellites, events, t)
           spaceWeatherAlerts == createSpaceWeatherAlerts(satellites, kpList, t)
       IN conjunctionAlerts \o spaceWeatherAlerts

\* ---------------------------------------------------- RIC decomposition
\* A number of the computation is the exact fraction <<numerator,
\* denominator>> (denominator > 0), kept in lowest terms.
RECURSIVE Gcd(_, _)
Gcd(a, b) == IF b = 0 THEN a ELSE Gcd(b, a % b)

Abs0(n) == IF n < 0 THEN 0 - n ELSE n

Lowest(n, d) ==
  LET g == Gcd(Abs0(n), d)
  IN <<n \div g, d \div g>>

Num(n) == <<n, 1>>
Plus(a, b) == Lowest(a[1] * b[2] + b[1] * a[2], a[2] * b[2])
Minus(a, b) == Lowest(a[1] * b[2] - b[1] * a[2], a[2] * b[2])
Times(a, b) == Lowest(a[1] * b[1], a[2] * b[2])
\* a / b for b > 0
Over(a, b) == Lowest(a[1] * b[2], a[2] * b[1])
LessEq(a, b) == a[1] * b[2] <= b[1] * a[2]

\* Math.sqrt on a perfect square
Sqrt(n) == CHOOSE r \in 0..n : r * r = n
PerfectSquare(n) == \E r \in 0..n : r * r = n

NormSquared(v) == v.x * v.x + v.y * v.y + v.z * v.z

calculateRICNonzeroRadial(primaryPos, primaryVel, secondaryPos, secondaryVel) ==
  LET relPos == [x |-> secondaryPos.x - primaryPos.x,
                 y |-> secondaryPos.y - primaryPos.y,
                 z |-> secondaryPos.z - primaryPos.z]
      posMagnitude == Sqrt(NormSquared(relPos))
  IN [radial |-> Num(posMagnitude), inTrack |-> Num(0), crossTrack |-> Num(0)]

calculateRIC(primaryPos, primaryVel, secondaryPos, secondaryVel) ==
  LET relPos == [x |-> secondaryPos.x - primaryPos.x,
                 y |-> secondaryPos.y - primaryPos.y,
                 z |-> secondaryPos.z - primaryPos.z]
      posMagnitude == Sqrt(NormSquared(relPos))
      velMagnitude == Sqrt(NormSquared(primaryVel))
  IN IF posMagnitude = 0 \/ velMagnitude = 0
     THEN [radial |-> Num(0), inTrack |-> Num(0), crossTrack |-> Num(0)]
     ELSE
       LET radial == [x |-> Over(Num(relPos.x), Num(posMagnitude)),
                      y |-> Over(Num(relPos.y), Num(posMagnitude)),
                      z |-> Over(Num(relPos.z), Num(posMagnitude))]
           inTrack == [x |-> Over(Num(primaryVel.x), Num(velMagnitude)),
                       y |-> Over(Num(primaryVel.y), Num(velMagnitude)),
                       z |-> Over(Num(primaryVel.z), Num(velMagnitude))]
           crossTrack ==
             [x |-> Minus(Times(radial.y, inTrack.z),
                          Times(radial.z, inTrack.y)),
              y |-> Minus(Times(radial.z, inTrack.x),
                          Times(radial.x, inTrack.z)),
              z |-> Minus(Times(radial.x, inTrack.y),
                          Times(radial.y, inTrack.x))]
           Dot(u) == Plus(Plus(Times(Num(relPos.x), u.x),
                               Times(Num(relPos.y), u.y)),
                          Times(Num(relPos.z), u.z))
       IN [radial |-> Dot(radial),
           inTrack |-> Dot(inTrack),
           crossTrack |-> Dot(crossTrack)]

\* ------------------------------------------------------- decision ledger
\* The ledger is the module-level Map `decisions`, held as the sequence of
\* its values in insertion order (the order Map iteration follows).
UnknownDecisionId == <<0, 0>>
UnknownActionId == <<"unknown", "0", 0>>

HasKey(decs, id) == \E i \in 1..Len(decs) : decs[i].id = id
IndexOf(decs, id) == CHOOSE i \in 1..Len(decs) : decs[i].id = id

\* Map.prototype.set: an existing key keeps its position, a new one is
\* appended.
MapSet(decs, id, value) ==
  IF HasKey(decs, id)
  THEN [decs EXCEPT ![IndexOf(decs, id)] = value]
  ELSE Append(decs, value)

\* ConjunctionAlertSchema.parse / SpaceWeatherAlertSchema.parse succeed
ConjunctionAlertSchemaOk(data) ==
  /\ ~IsNull(data.tca)
  /\ data.miss_distance_km > 0

SpaceWeatherAlertSchemaOk(data) == ~IsNull(data.type)

newDecisionStatus == "pending"

suggestOutcomeRecordsRejected(decs, alertType, alertData, th, t, n) ==
  LET parsed ==
        IF alertType = "conjunction" THEN ConjunctionAlertSchemaOk(alertData)
        ELSE IF alertType = "space_weather"
             THEN SpaceWeatherAlertSchemaOk(alertData)
             ELSE FALSE
      suggestedActions ==
        IF ~parsed THEN << >>
        ELSE IF alertType = "conjunction"
             THEN analyzeConjunction(alertData, th, t)
             ELSE analyzeSpaceWeather(alertData, th, t)
      decisionId == <<t, n>>
      decision == [id |-> decisionId,
                   alertType |-> alertType,
                   alertData |-> alertData,
                   suggestedActions |-> suggestedActions,
                   status |-> newDecisionStatus,
                   createdAt |-> t,
                   executedAt |-> Null,
                   executionLog |-> Null]
  IN IF alertType \notin {"conjunction", "space_weather"}
     THEN [reply |-> [op |-> "suggest", status |-> 400,
                      error |-> Some("Invalid alert type"), data |-> Null],
           decisions |-> decs, nonce |-> n]
     ELSE IF ~parsed
     THEN [reply |-> [op |-> "suggest", status |-> 400,
                      error |-> Some("Invalid alert data"), data |-> Null],
           decisions |-> MapSet(decs, decisionId, decision), nonce |-> n + 1]
     ELSE [reply |-> [op |-> "suggest", status |-> 200,
                      error |-> Null, data |-> Some(decision)],
           decisions |-> MapSet(decs, decisionId, decision), nonce |-> n + 1]

\* POST /suggest: the reply and the ledger it leaves
suggestOutcome(decs, alertType, alertData, th, t, n) ==
  LET parsed ==
        IF alertType = "conjunction" THEN ConjunctionAlertSchemaOk(alertData)
        ELSE IF alertType = "space_weather"
             THEN SpaceWeatherAlertSchemaOk(alertData)
             ELSE FALSE
      suggestedActions ==
        IF alertType = "conjunction" THEN analyzeConjunction(alertData, th, t)
        ELSE analyzeSpaceWeather(alertData, th, t)
      decisionId == <<t, n>>
      decision == [id |-> decisionId,
                   alertType |-> alertType,
                   alertData |-> alertData,
                   suggestedActions |-> suggestedActions,
                   status |-> newDecisionStatus,
                   createdAt |-> t,
                   executedAt |-> Null,
                   executionLog |-> Null]
  IN IF alertType \notin {"conjunction", "space_weather"}
     THEN [reply |-> [op |-> "suggest", status |-> 400,
                      error |-> Some("Invalid alert type"), data |-> Null],
           decisions |-> decs, nonce |-> n]
     ELSE IF ~parsed
     THEN [reply |-> [op |-> "suggest", status |-> 400,
                      error |-> Some("Invalid alert data"), data |-> Null],
           decisions |-> decs, nonce |-> n]
     ELSE [reply |-> [op |-> "suggest", status |-> 200,
                      error |-> Null, data |-> Some(decision)],
           decisions |-> MapSet(decs, decisionId, decision), nonce |-> n + 1]

\* Array.prototype.find on the decision's suggested actions
FindAction(actions, actionId) ==
  IF \E k \in 1..Len(actions) : actions[k].id = actionId
  THEN Some(actions[CHOOSE k \in 1..Len(actions) :
                      /\ actions[k].id = actionId
                      /\ \A j \in 1..(k - 1) : actions[j].id # actionId])
  ELSE Null

executedStatusRejected == "rejected"

executedStatus == "executed"

markExecutedUnstamped(decision, executionLog, t) ==
  [decision EXCEPT !.status = executedStatus,
                   !.executionLog = Some(executionLog)]

\* decision.status = 'executed'; decision.executedAt = now;
\* decision.executionLog = executionLog
markExecuted(decision, executionLog, t) ==
  [decision EXCEPT !.status = executedStatus,
                   !.executedAt = Some(t),
                   !.executionLog = Some(executionLog)]

\* POST /execute: the reply and the ledger it leaves
executeOutcomeAnyAction(decs, decisionId, actionId, t) ==
  IF ~HasKey(decs, decisionId)
  THEN [reply |-> [op |-> "execute", status |-> 404, error |-> Some("Decision not found"),
                   data |-> Null],
        decisions |-> decs]
  ELSE LET decision == decs[IndexOf(decs, decisionId)]
           executed == [decision EXCEPT !.status = executedStatus,
                                        !.executedAt = Some(t),
                                        !.executionLog = Some(<<"Executed">>)]
       IN [reply |-> [op |-> "execute", status |-> 200, error |-> Null,
                      data |-> Some([decisionId |-> decisionId,
                                     actionId |-> actionId,
                                     status |-> "executed",
                                     executionLog |-> <<"Executed">>,
                                     executedAt |-> t])],
           decisions |-> MapSet(decs, decisionId, executed)]

executeOutcome(decs, decisionId, actionId, t) ==
  IF ~HasKey(decs, decisionId)
  THEN [reply |-> [op |-> "execute", status |-> 404, error |-> Some("Decision not found"),
                   data |-> Null],
        decisions |-> decs]
  ELSE LET decision == decs[IndexOf(decs, decisionId)]
           action == FindAction(decision.suggestedActions, actionId)
       IN IF IsNull(action)
          THEN [reply |-> [op |-> "execute", status |-> 404, error |-> Some("Action not found"),
                           data |-> Null],
                decisions |-> decs]
          ELSE LET executionLog ==
                     <<"Executed", Val(action).type, Val(action).rationale>>
                   executed == markExecuted(decision, executionLog, t)
               IN [reply |-> [op |-> "execute", status |-> 200, error |-> Null,
                              data |-> Some([decisionId |-> decisionId,
                                             actionId |-> actionId,
                                             status |-> "executed",
                                             executionLog |-> executionLog,
                                             executedAt |-> t])],
                   decisions |-> MapSet(decs, decisionId, executed)]

\* Array.prototype.filter
RECURSIVE Filter(_, _)
Filter(list, status) ==
  IF list = << >> THEN << >>
  ELSE IF Head(list).status = status
       THEN <<Head(list)>> \o Filter(Tail(list), status)
       ELSE Filter(Tail(list), status)

\* Array.prototype.slice(0, n): a negative n counts from the end
Slice0(list, n) ==
  LET end == IF n < 0 THEN Max(Len(list) + n, 0) ELSE Min(n, Len(list))
  IN SubSeq(list, 1, end)

\* parseInt on the query strings the model sends; <<>> is NaN
parseInt(str) ==
  CASE str = "0" -> Some(0)
    [] str = "1" -> Some(1)
    [] str = "2" -> Some(2)
    [] str = "3" -> Some(3)
    [] str = "-1" -> Some(0 - 1)
    [] OTHER -> Null

\* One step of the stable sort by createdAt, newest first: d goes after
\* every element that is not older than it.
InsertNewestFirst(sorted, d) ==
  LET k == Cardinality({i \in 1..Len(sorted) :
                          sorted[i].createdAt >= d.createdAt})
  IN SubSeq(sorted, 1, k) \o <<d>> \o SubSeq(sorted, k + 1, Len(sorted))

RECURSIVE SortNewestFirst(_)
SortNewestFirst(list) ==
  IF list = << >> THEN << >>
  ELSE InsertNewestFirst(SortNewestFirst(SubSeq(list, 1, Len(list) - 1)),
                         list[Len(list)])

\* GET /: status and limit are the optional query strings (<<>> = absent)
listOutcome(decs, status, limit) ==
  LET filtered ==
        IF ~IsNull(status) /\ Val(status) # ""
        THEN Filter(decs, Val(status)) ELSE decs
      limited ==
        IF ~IsNull(limit) /\ Val(limit) # ""
        THEN LET limitNum == parseInt(Val(limit))
             IN IF ~IsNull(limitNum) THEN Slice0(filtered, Val(limitNum))
                ELSE filtered
        ELSE filtered
  IN SortNewestFirst(limited)

\* ------------------------------------------------------ requests' inputs
Norad == "25544"

ConjunctionData(tca, sigma) ==
  [tca |-> tca, miss_distance_km |-> 500, pc |-> Null,
   sigma_ran_km |-> sigma, sigma_tan_km |-> sigma, sigma_norm_km |-> sigma,
   primary_norad |-> Norad]

WeatherData(type, kp) ==
  [type |-> type, kp |-> kp, cme_eta_start |-> Null, cme_eta_end |-> Null]

\* The bodies POST /suggest receives at instant t
SuggestBodies(t) ==
  { [alertType |-> "conjunction",
     alertData |-> ConjunctionData(Some(t + 24 * MsPerHour), Null)],
    [alertType |-> "conjunction",
     alertData |-> ConjunctionData(Some(t + 24 * MsPerHour), Some(20))],
    [alertType |-> "conjunction",
     alertData |-> ConjunctionData(Some(t + 73 * MsPerHour), Null)],
    [alertType |-> "conjunction", alertData |-> ConjunctionData(Null, Null)],
    [alertType |-> "space_weather",
     alertData |-> WeatherData(Some("geomagnetic_storm"), Some(70))],
    [alertType |-> "space_weather",
     alertData |-> WeatherData(Some("geomagnetic_storm"), Null)],
    [alertType |-> "space_weather", alertData |-> WeatherData(Null, Some(70))],
    [alertType |-> "telemetry", alertData |-> Null] }

StatusQueries == {Null, Some("pending"), Some("executed")}
LimitQueries == {Null, Some("abc"), Some("0"), Some("1"), Some("2")}

DecisionIds(decs) == {decs[i].id : i \in 1..Len(decs)}
ActionIds(decs, id) ==
  IF HasKey(decs, id)
  THEN LET acts == decs[IndexOf(decs, id)].suggestedActions
       IN {acts[k].id : k \in 1..Len(acts)}
  ELSE {}

\* ------------------------------------------------------------- the ledger
Init ==
  /\ decisions = << >>
  /\ now = 0
  /\ nonce = 1
  /\ thresholds = DEFAULT_THRESHOLDS
  /\ inflight = {}
  /\ replies = {}
  /\ nextRid = 1
  /\ lastReply = Null
  /\ engineIn = Null
  /\ engineOut = Null

\* The clock advances by a millisecond.
Tick ==
  /\ now < MaxClock
  /\ now' = now + 1
  /\ lastReply' = Null
  /\ UNCHANGED <<decisions, nonce, thresholds, inflight, replies, nextRid,
                 engineIn, engineOut>>

\* POST /suggest
Suggest ==
  /\ Len(decisions) < MaxDecisions
  /\ \E body \in SuggestBodies(now) :
       LET out == suggestOutcome(decisions, body.alertType, body.alertData,
                                 thresholds, now, nonce)
       IN /\ decisions' = out.decisions
          /\ lastReply' = Some(out.reply)
          /\ nonce' = out.nonce
  /\ UNCHANGED <<now, thresholds, inflight, replies, nextRid,
                 engineIn, engineOut>>

\* A POST /execute request arrives; its handler has not run yet.
IssueExecute ==
  /\ nextRid <= MaxRequests
  /\ \E decisionId \in DecisionIds(decisions) \cup {UnknownDecisionId} :
       \E actionId \in ActionIds(decisions, decisionId) \cup {UnknownActionId} :
         inflight' = inflight \cup {[rid |-> nextRid, decisionId |-> decisionId,
                                     actionId |-> actionId]}
  /\ nextRid' = nextRid + 1
  /\ lastReply' = Null
  /\ UNCHANGED <<decisions, now, nonce, thresholds, replies,
                 engineIn, engineOut>>

\* The handler of POST /execute runs; it has no await, so it runs to its
\* reply without interleaving with another handler.
HandleExecute ==
  \E r \in inflight :
    LET out == executeOutcome(decisions, r.decisionId, r.actionId, now)
    IN /\ decisions' = out.decisions
       /\ inflight' = inflight \ {r}
       /\ lastReply' = Some(out.reply)
       /\ replies' = replies \cup
            {[rid |-> r.rid, decisionId |-> r.decisionId,
              status |-> out.reply.status,
              overlapped |-> {q.rid : q \in inflight \ {r}}]}
       /\ UNCHANGED <<now, nonce, thresholds, nextRid, engineIn, engineOut>>

\* GET /
List ==
  /\ \E status \in StatusQueries, limit \in LimitQueries :
       lastReply' = Some([op |-> "list", status |-> status, limit |-> limit,
                          data |-> listOutcome(decisions, status, limit)])
  /\ UNCHANGED <<decisions, now, nonce, thresholds, inflight, replies,
                 nextRid, engineIn, engineOut>>

\* The ledger's transitions
Next == Tick \/ Suggest \/ IssueExecute \/ HandleExecute

Spec == Init /\ [][Next]_vars

\* The ledger with its read operation
NextList == Tick \/ Suggest \/ IssueExecute \/ HandleExecute \/ List

SpecList == Init /\ [][NextList]_vars

\* ------------------------------------- the ledger with threshold updates
\* A second schema-valid threshold set; it differs from the default in
\* every field.
ThresholdUpdate ==
  [conjunction |-> [critical_pc |-> 5, warning_miss_distance_km |-> 2000],
   space_weather |-> [kp_warning |-> 80, cme_hours_to_eta_critical |-> 24]]

ThresholdUpdates == {DEFAULT_THRESHOLDS, ThresholdUpdate}

updateThresholdsKeepConjunction(old, newThresholds) ==
  [conjunction |-> old.conjunction,
   space_weather |-> newThresholds.space_weather]

\* this.thresholds = newThresholds
updateThresholds(old, newThresholds) == newThresholds

\* engine.updateThresholds(T); the call is remembered in lastReply.
UpdateThresholds ==
  /\ \E T \in ThresholdUpdates :
       /\ thresholds' = updateThresholds(thresholds, T)
       /\ lastReply' = Some([op |-> "updateThresholds", newThresholds |-> T])
  /\ UNCHANGED <<decisions, now, nonce, inflight, replies, nextRid,
                 engineIn, engineOut>>

NextThresholds == Tick \/ Suggest \/ UpdateThresholds

SpecThresholds == Init /\ [][NextThresholds]_vars

\* ------------------------------------------- the engine's pure functions
TcaOffsets ==
  {0 - MsPerHour, 0, MsPerHour, 2 * MsPerHour, 71 * MsPerHour,
   72 * MsPerHour, 72 * MsPerHour + 1, 73 * MsPerHour}
SigmaRanValues == {Null, Some(0), Some(5)}
SigmaTanValues ==
  {Null, Some(0 - 10), Some(0), Some(1), Some(99), Some(100), Some(101)}
SigmaNormValues ==
  {Null, Some(0 - 10), Some(0), Some(1), Some(49), Some(50), Some(51)}
PcValues == {Null, Some(11)}
MissDistanceValues == {500, 2000}
EngineClock == {0, 1000}

ConjunctionAlerts(t) ==
  { [tca |-> Some(t + off), miss_distance_km |-> miss, pc |-> pc,
     sigma_ran_km |-> sr, sigma_tan_km |-> st, sigma_norm_km |-> sn,
     primary_norad |-> Norad] :
      off \in TcaOffsets, miss \in MissDistanceValues, pc \in PcValues,
      sr \in SigmaRanValues, st \in SigmaTanValues, sn \in SigmaNormValues }

KpValues == {Null, Some(0), Some(59), Some(60), Some(61)}
CmeStartOffsets ==
  {0 - MsPerHour, 17 * MsPerHour, 18 * MsPerHour, 19 * MsPerHour}
CmeEndOffsets == {0 - MsPerHour, 30 * MsPerHour}

SpaceWeatherAlerts(t) ==
  { [type |-> Some("geomagnetic_storm"), kp |-> kp,
     cme_eta_start |-> cs, cme_eta_end |-> ce] :
      kp \in KpValues,
      cs \in {Null} \cup {Some(t + off) : off \in CmeStartOffsets},
      ce \in {Null} \cup {Some(t + off) : off \in CmeEndOffsets} }

\* An engine call is about to be made on a schema-valid alert.
InitEngine ==
  /\ decisions = << >>
  /\ now \in EngineClock
  /\ nonce = 1
  /\ thresholds = DEFAULT_THRESHOLDS
  /\ inflight = {}
  /\ replies = {}
  /\ nextRid = 1
  /\ lastReply = Null
  /\ engineIn \in
       { Some([op |-> "analyzeConjunction", alert |-> a]) :
           a \in ConjunctionAlerts(now) }
       \cup { Some([op |-> "analyzeSpaceWeather", alert |-> a]) :
                a \in SpaceWeatherAlerts(now) }
  /\ engineOut = Null

RunAnalyzeConjunction ==
  /\ IsNull(engineOut)
  /\ Val(engineIn).op = "analyzeConjunction"
  /\ engineOut' = Some(analyzeConjunction(Val(engineIn).alert, thresholds, now))
  /\ UNCHANGED <<decisions, now, nonce, thresholds, inflight, replies,
                 nextRid, lastReply, engineIn>>

RunAnalyzeSpaceWeather ==
  /\ IsNull(engineOut)
  /\ Val(engineIn).op = "analyzeSpaceWeather"
  /\ engineOut' = Some(analyzeSpaceWeather(Val(engineIn).alert, thresholds, now))
  /\ UNCHANGED <<decisions, now, nonce, thresholds, inflight, replies,
                 nextRid, lastReply, engineIn>>

NextEngine == RunAnalyzeConjunction \/ RunAnalyzeSpaceWeather

SpecEngine == InitEngine /\ [][NextEngine]_vars

\* ------------------------------- the space-weather analysis, any thresholds
\* Kp readings 0..9 and the warning thresholds the schema permits (0..9),
\* both in tenths.
WeatherKpValues == {Null} \cup {Some(10 * k) : k \in 0..9}
KpWarningValues == {10 * k : k \in 0..9}
CmeCriticalValues == {18, 24}

EngineThresholds ==
  { [conjunction |-> DEFAULT_THRESHOLDS.conjunction,
     space_weather |-> [kp_warning |-> w, cme_hours_to_eta_critical |-> c]] :
      w \in KpWarningValues, c \in CmeCriticalValues }

WeatherAlerts(t) ==
  { [type |-> Some("geomagnetic_storm"), kp |-> kp,
     cme_eta_start |-> cs, cme_eta_end |-> ce] :
      kp \in WeatherKpValues,
      cs \in {Null} \cup {Some(t + off) : off \in CmeStartOffsets},
      ce \in {Null} \cup {Some(t + off) : off \in CmeEndOffsets} }

\* An engine constructed with a threshold set is about to analyse a
\* schema-valid space-weather alert.
InitWeather ==
  /\ decisions = << >>
  /\ now \in EngineClock
  /\ nonce = 1
  /\ thresholds \in EngineThresholds
  /\ inflight = {}
  /\ replies = {}
  /\ nextRid = 1
  /\ lastReply = Null
  /\ engineIn \in { Some([op |-> "analyzeSpaceWeather", alert |-> a]) :
                      a \in WeatherAlerts(now) }
  /\ engineOut = Null

NextWeather == RunAnalyzeSpaceWeather

SpecWeather == InitWeather /\ [][NextWeather]_vars

\* ---------------------------------------- classification of two distances
\* Miss distances (metres) around the bands and around both warning
\* thresholds, and probabilities around both critical thresholds.
RiskDistances ==
  {1, 999, 1000, 1999, 2000, 4999, 5000, 5001, 9999, 10000, 10001, 50000}
RiskPcValues == {Null, Some(0), Some(5), Some(6), Some(10), Some(11)}

\* Two conjunctions that differ in miss distance only are about to be
\* classified.
InitRisk ==
  /\ decisions = << >>
  /\ now \in EngineClock
  /\ nonce = 1
  /\ thresholds \in ThresholdUpdates
  /\ inflight = {}
  /\ replies = {}
  /\ nextRid = 1
  /\ lastReply = Null
  /\ engineIn \in
       { Some([op |-> op, d1 |-> d1, d2 |-> d2, pc |-> pc]) :
           op \in {"computeConjunctionRisk", "conjunctionSeverity"},
           d1 \in RiskDistances, d2 \in RiskDistances, pc \in RiskPcValues }
  /\ engineOut = Null

RiskAlert(d, pc, t) ==
  [ConjunctionData(Some(t + MsPerHour), Null)
     EXCEPT !.miss_distance_km = d, !.pc = pc]

RunComputeConjunctionRisk ==
  /\ IsNull(engineOut)
  /\ Val(engineIn).op = "computeConjunctionRisk"
  /\ engineOut' = Some(<<computeConjunctionRisk(Val(engineIn).d1),
                         computeConjunctionRisk(Val(engineIn).d2)>>)
  /\ UNCHANGED <<decisions, now, nonce, thresholds, inflight, replies,
                 nextRid, lastReply, engineIn>>

RunConjunctionSeverity ==
  /\ IsNull(engineOut)
  /\ Val(engineIn).op = "conjunctionSeverity"
  /\ engineOut' =
       Some(<<conjunctionSeverity(
                RiskAlert(Val(engineIn).d1, Val(engineIn).pc, now), thresholds),
              conjunctionSeverity(
                RiskAlert(Val(engineIn).d2, Val(engineIn).pc, now), thresholds)>>)
  /\ UNCHANGED <<decisions, now, nonce, thresholds, inflight, replies,
                 nextRid, lastReply, engineIn>>

NextRisk == RunComputeConjunctionRisk \/ RunConjunctionSeverity

SpecRisk == InitRisk /\ [][NextRisk]_vars

\* ------------------------------------------------- one call of a matcher
ISS == <<"I", "S", "S">>
HST == <<"H", "S", "T">>

\* The tracked objects: distinct ids, as the UI assigns them
TrackedISS == [id |-> "sat-1", name |-> ISS, altitudeKm |-> 400]
TrackedHST == [id |-> "sat-2", name |-> HST, altitudeKm |-> 540]
SatelliteLists == {<<TrackedISS>>, <<TrackedISS, TrackedHST>>}

\* Event labels: the name in another case, a label that contains it, an
\* unrelated one, and both names
EventLabels ==
  { [objectA |-> <<"i", "s", "s">>, objectB |-> <<"D", "E", "B">>],
    [objectA |-> <<"i", "s", "s">>, objectB |-> <<"h", "s", "t">>],
    [objectA |-> <<"D", "E", "B">>, objectB |-> <<"M", "I", "S", "S">>],
    [objectA |-> <<"D", "E", "B">>, objectB |-> <<"h", "s", "t">>],
    [objectA |-> <<"D", "E", "B">>, objectB |-> <<"D", "E", "B">>] }
EventAltitudes == {349, 350, 450, 451, 1000}
EventMissDistances == {4000, 20000}
EventTcas == {1000, 2000}

ConjunctionEvents ==
  { [objectA |-> l.objectA, objectB |-> l.objectB, altitudeKm |-> a,
     missDistanceKm |-> m, tca |-> tca] :
      l \in EventLabels, a \in EventAltitudes, m \in EventMissDistances,
      tca \in EventTcas }

EventLists ==
  UNION { [1..n -> ConjunctionEvents] : n \in 0..MaxEvents }

\* A matcher is about to be called on the tracked objects and the loaded
\* events.
InitMatcher ==
  /\ decisions = << >>
  /\ now \in EngineClock
  /\ nonce = 1
  /\ thresholds = DEFAULT_THRESHOLDS
  /\ inflight = {}
  /\ replies = {}
  /\ nextRid = 1
  /\ lastReply = Null
  /\ engineIn \in
       { Some([op |-> op, satellites |-> s, events |-> e]) :
           op \in {"attachEventsToSatellites",
                   "attachEventsToSatellitesByName"},
           s \in SatelliteLists, e \in EventLists }
  /\ engineOut = Null

RunAttachEventsToSatellites ==
  /\ IsNull(engineOut)
  /\ Val(engineIn).op = "attachEventsToSatellites"
  /\ engineOut' = Some(attachEventsToSatellites(
                         Val(engineIn).satellites, Val(engineIn).events, now))
  /\ UNCHANGED <<decisions, now, nonce, thresholds, inflight, replies,
                 nextRid, lastReply, engineIn>>

RunAttachEventsToSatellitesByName ==
  /\ IsNull(engineOut)
  /\ Val(engineIn).op = "attachEventsToSatellitesByName"
  /\ engineOut' = Some(attachEventsToSatellitesByName(
                         Val(engineIn).satellites, Val(engineIn).events, now))
  /\ UNCHANGED <<decisions, now, nonce, thresholds, inflight, replies,
                 nextRid, lastReply, engineIn>>

NextMatcher ==
  RunAttachEventsToSatellites \/ RunAttachEventsToSatellitesByName

SpecMatcher == InitMatcher /\ [][NextMatcher]_vars

\* ------------------------------------------- one call of a weather matcher
AppSatelliteLists == {<< >>} \cup SatelliteLists

\* Readings around the alert level; a reading that failed to parse is NaN
KpReadings ==
  { [time |-> 100, kp |-> Some(59)], [time |-> 100, kp |-> Some(60)],
    [time |-> 200, kp |-> Some(70)], [time |-> 200, kp |-> Null] }

KpLists == UNION { [1..n -> KpReadings] : n \in 0..MaxReadings }

InitWeatherAlerts ==
  /\ decisions = << >>
  /\ now \in EngineClock
  /\ nonce = 1
  /\ thresholds = DEFAULT_THRESHOLDS
  /\ inflight = {}
  /\ replies = {}
  /\ nextRid = 1
  /\ lastReply = Null
  /\ engineIn \in
       { Some([op |-> op, satellites |-> s, kpList |-> k]) :
           op \in {"createSpaceWeatherAlerts",
                   "createSpaceWeatherAlertsSingle"},
           s \in AppSatelliteLists, k \in KpLists }
  /\ engineOut = Null

RunCreateSpaceWeatherAlerts ==
  /\ IsNull(engineOut)
  /\ Val(engineIn).op = "createSpaceWeatherAlerts"
  /\ engineOut' = Some(createSpaceWeatherAlerts(
                         Val(engineIn).satellites, Val(engineIn).kpList, now))
  /\ UNCHANGED <<decisions, now, nonce, thresholds, inflight, replies,
                 nextRid, lastReply, engineIn>>

\* The documented function takes the readings only.
RunCreateSpaceWeatherAlertsSingle ==
  /\ IsNull(engineOut)
  /\ Val(engineIn).op = "createSpaceWeatherAlertsSingle"
  /\ engineOut' = Some(createSpaceWeatherAlertsSingle(
                         Val(engineIn).satellites, Val(engineIn).kpList, now))
  /\ UNCHANGED <<decisions, now, nonce, thresholds, inflight, replies,
                 nextRid, lastReply, engineIn>>

NextWeatherAlerts ==
  RunCreateSpaceWeatherAlerts \/ RunCreateSpaceWeatherAlertsSingle

SpecWeatherAlerts == InitWeatherAlerts /\ [][NextWeatherAlerts]_vars

\* ------------------------------------------------- the web app's alert list
\* The App's `alerts` state is engineOut; the tracked satellites and what
\* the two fetches return are engineIn; replies remembers, for every
\* completed loadData, its instant and the alert ids it set.
AppEvents ==
  { [objectA |-> <<"i", "s", "s">>, objectB |-> <<"D", "E", "B">>,
     altitudeKm |-> 350, missDistanceKm |-> 4000, tca |-> 1000],
    [objectA |-> <<"D", "E", "B">>, objectB |-> <<"h", "s", "t">>,
     altitudeKm |-> 450, missDistanceKm |-> 20000, tca |-> 1000],
    [objectA |-> <<"D", "E", "B">>, objectB |-> <<"D", "E", "B">>,
     altitudeKm |-> 1000, missDistanceKm |-> 7000, tca |-> 2000] }

AppEventLists == UNION { [1..n -> AppEvents] : n \in 0..MaxEvents }

AppKpLists == {<< >>, <<[time |-> 200, kp |-> Some(70)]>>}

InitApp ==
  /\ decisions = << >>
  /\ now = 0
  /\ nonce = 1
  /\ thresholds = DEFAULT_THRESHOLDS
  /\ inflight = {}
  /\ replies = {}
  /\ nextRid = 1
  /\ lastReply = Null
  /\ engineIn \in
       { Some([op |-> "App", matcher |-> m, satellites |-> s, events |-> e,
               kpList |-> k]) :
           m \in {"attachEventsToSatellites",
                  "attachEventsToSatellitesByName"},
           s \in AppSatelliteLists, e \in AppEventLists, k \in AppKpLists }
  /\ engineOut = Some(<< >>)

\* loadData runs to its setAlerts (the mount effect, the 60-second
\* interval or the Refresh Data button started it; both fetches resolved).
LoadData ==
  LET in == Val(engineIn)
      alerts == loadData(in.matcher, in.satellites, in.events, in.kpList, now)
  IN /\ engineOut' = Some(alerts)
     /\ replies' = replies \cup
          {[t |-> now, ids |-> [k \in 1..Len(alerts) |-> alerts[k].id]]}
     /\ lastReply' = Some([op |-> "loadData"])
     /\ UNCHANGED <<decisions, now, nonce, thresholds, inflight, nextRid,
                    engineIn>>

\* loadData with a fetch that rejects: the catch logs, alerts stay.
LoadDataFails ==
  /\ Len(Val(engineIn).satellites) > 0
  /\ lastReply' = Some([op |-> "loadDataFailed"])
  /\ UNCHANGED <<decisions, now, nonce, thresholds, inflight, replies,
                 nextRid, engineIn, engineOut>>

\* The operator clicks Execute Action on a listed alert.
HandleAcknowledgeAlert ==
  \E k \in 1..Len(Val(engineOut)) :
    /\ engineOut' = Some(handleAcknowledgeAlert(Val(engineOut),
                                                Val(engineOut)[k].id))
    /\ lastReply' = Some([op |-> "handleAcknowledgeAlert",
                          id |-> Val(engineOut)[k].id])
    /\ UNCHANGED <<decisions, now, nonce, thresholds, inflight, replies,
                   nextRid, engineIn>>

NextApp == Tick \/ LoadData \/ LoadDataFails \/ HandleAcknowledgeAlert

SpecApp == InitApp /\ [][NextApp]_vars

\* ------------------------------------------- one call of calculateRIC
\* Positions and velocities (km, km/s) with small integer components; the
\* calls drawn are those whose two magnitudes are whole numbers, so that
\* Math.sqrt is exact.
RicPositions ==
  { [x |-> 0, y |-> 0, z |-> 0], [x |-> 1, y |-> 0, z |-> 0],
    [x |-> 3, y |-> 4, z |-> 0], [x |-> 0, y |-> 0, z |-> 2],
    [x |-> 1, y |-> 2, z |-> 2], [x |-> 0 - 2, y |-> 0, z |-> 0] }
RicVelocities ==
  { [x |-> 0, y |-> 0, z |-> 0], [x |-> 1, y |-> 0, z |-> 0],
    [x |-> 0, y |-> 2, z |-> 0], [x |-> 0, y |-> 3, z |-> 4],
    [x |-> 0 - 3, y |-> 0, z |-> 4] }
RicSecondaryVelocities ==
  { [x |-> 0, y |-> 0, z |-> 0], [x |-> 1, y |-> 1, z |-> 1] }

RicCalls ==
  { c \in [primaryPos : RicPositions, primaryVel : RicVelocities,
           secondaryPos : RicPositions, secondaryVel : RicSecondaryVelocities] :
      PerfectSquare(NormSquared([x |-> c.secondaryPos.x - c.primaryPos.x,
                                 y |-> c.secondaryPos.y - c.primaryPos.y,
                                 z |-> c.secondaryPos.z - c.primaryPos.z])) }

InitRIC ==
  /\ decisions = << >>
  /\ now = 0
  /\ nonce = 1
  /\ thresholds = DEFAULT_THRESHOLDS
  /\ inflight = {}
  /\ replies = {}
  /\ nextRid = 1
  /\ lastReply = Null
  /\ engineIn \in { Some([op |-> "calculateRIC", call |-> c]) : c \in RicCalls }
  /\ engineOut = Null

RunCalculateRIC ==
  /\ IsNull(engineOut)
  /\ Val(engineIn).op = "calculateRIC"
  /\ LET c == Val(engineIn).call
     IN engineOut' = Some(calculateRIC(c.primaryPos, c.primaryVel,
                                       c.secondaryPos, c.secondaryVel))
  /\ UNCHANGED <<decisions, now, nonce, thresholds, inflight, replies,
                 nextRid, lastReply, engineIn>>

NextRIC == RunCalculateRIC

SpecRIC == InitRIC /\ [][NextRIC]_vars

\* ================================================================ claims
\* The execute request whose handler runs in the step, seen from the pair
\* of states: it leaves the set of requests in flight.
Handled(r) == r \in inflight /\ r \notin inflight'

TargetsKnownAction(r) ==
  /\ HasKey(decisions, r.decisionId)
  /\ r.actionId \in ActionIds(decisions, r.decisionId)

\* C1: at-most-once execution. Of the execute calls on a recorded decision
\* (with any of its action ids), the one that finds it pending succeeds and
\* every call that finds it already executed is rejected with
\* AlreadyExecuted.
C1_AtMostOnceExecution ==
  [][\A r \in inflight :
       (Handled(r) /\ TargetsKnownAction(r)) =>
         IF decisions[IndexOf(decisions, r.decisionId)].status = "executed"
         THEN /\ Val(lastReply').status # 200
              /\ Val(lastReply').error = Some("AlreadyExecuted")
         ELSE Val(lastReply').status = 200]_vars

\* C2: once a decision is executed, no later step changes its execution
\* timestamp or its execution log.
C2_ExecutionRecordFrozen ==
  [][\A i \in 1..Len(decisions) :
       decisions[i].status = "executed" =>
         /\ i <= Len(decisions')
         /\ decisions'[i].executedAt = decisions[i].executedAt
         /\ decisions'[i].executionLog = decisions[i].executionLog]_vars

\* C3: of two execute calls on the same decision that were in flight at the
\* same time and both name one of its actions, exactly one succeeds.
C3_ConcurrentExecuteExclusive ==
  \A p \in replies : \A q \in replies :
    (/\ p.rid # q.rid
     /\ p.decisionId = q.decisionId
     /\ q.rid \in p.overlapped
     /\ p.status # 404
     /\ q.status # 404)
    => ((p.status = 200) # (q.status = 200))

\* C4: execute on an unknown decision id, or with an action id that is not
\* among the decision's suggested actions, replies NotFound (404) and leaves
\* the ledger as it was.
C4_NotFoundLeavesLedger ==
  [][\A r \in inflight :
       (Handled(r) /\ ~TargetsKnownAction(r)) =>
         /\ Val(lastReply').status = 404
         /\ Val(lastReply').error =
              (IF HasKey(decisions, r.decisionId)
               THEN Some("Action not found") ELSE Some("Decision not found"))
         /\ decisions' = decisions]_vars

\* C4 witness: one execute was answered 404 for an unknown decision and one
\* for an unknown action of a recorded decision.
C4_Witness ==
  \E p \in replies : \E q \in replies :
    /\ p.status = 404 /\ ~HasKey(decisions, p.decisionId)
    /\ q.status = 404 /\ HasKey(decisions, q.decisionId)

\* C5: every decision stored in the ledger carries at least one suggested
\* action.
C5_StoredDecisionHasAction ==
  \A i \in 1..Len(decisions) : Len(decisions[i].suggestedActions) >= 1

\* C6: a decision is created pending, the only status change of a step is
\* pending -> executed, an executed decision stays executed, and no decision
\* leaves the ledger.
C6_LifecycleMonotone ==
  [][/\ Len(decisions') >= Len(decisions)
     /\ \A i \in 1..Len(decisions) :
          /\ decisions'[i].id = decisions[i].id
          /\ \/ decisions'[i].status = decisions[i].status
             \/ (decisions[i].status = "pending"
                 /\ decisions'[i].status = "executed")
     /\ \A j \in (Len(decisions) + 1)..Len(decisions') :
          decisions'[j].status = "pending"]_vars

\* C6 witness: the ledger holds an executed decision and a pending one
\* recorded after it.
C6_Witness ==
  \E i \in 1..Len(decisions) : \E j \in 1..Len(decisions) :
    /\ i < j
    /\ decisions[i].status = "executed"
    /\ decisions[j].status = "pending"

\* The decisions a list call with this status filter is about
Matching(status) ==
  {i \in 1..Len(decisions) :
     (IsNull(status) \/ Val(status) = "") \/ decisions[i].status = Val(status)}

\* C7: the reply of list(status, limit) holds matching decisions only, each
\* once, newest first; without a limit all of them, with a limit n the n most
\* recently created ones (min(n, number matching) entries, none of them older
\* than a matching decision left out).
C7_ListNewestFirstLimited ==
  (~IsNull(lastReply) /\ Val(lastReply).op = "list") =>
    LET data == Val(lastReply).data
        match == Matching(Val(lastReply).status)
        limitNum == IF IsNull(Val(lastReply).limit) THEN Null
                    ELSE parseInt(Val(Val(lastReply).limit))
        shown == {i \in match : \E k \in 1..Len(data) : data[k] = decisions[i]}
    IN /\ \A k \in 1..Len(data) : \E i \in match : data[k] = decisions[i]
       /\ \A k \in 1..Len(data) : \A m \in 1..Len(data) :
            k < m => /\ data[k].id # data[m].id
                     /\ data[k].createdAt >= data[m].createdAt
       /\ Len(data) = (IF IsNull(limitNum) THEN Cardinality(match)
                       ELSE Min(Val(limitNum), Cardinality(match)))
       /\ \A i \in match \ shown : \A k \in shown :
            decisions[i].createdAt <= decisions[k].createdAt

EngineRan(op) ==
  ~IsNull(engineIn) /\ Val(engineIn).op = op /\ ~IsNull(engineOut)

CountType(actions, type) ==
  Cardinality({k \in 1..Len(actions) : actions[k].type = type})

\* C8: analyzeConjunction returns the empty list exactly when the TCA is
\* more than 72 hours after now; at 72 hours or less the result is not empty.
C8_EmptyIffBeyond72h ==
  EngineRan("analyzeConjunction") =>
    ((Val(engineOut) = << >>)
       <=> (Val(Val(engineIn).alert.tca) - now > 72 * 3600000))

\* C8 witness: a call with the TCA exactly 72 hours away returned actions.
C8_Witness ==
  /\ EngineRan("analyzeConjunction")
  /\ Val(Val(engineIn).alert.tca) - now = 72 * 3600000
  /\ Val(engineOut) # << >>

\* C9: within the horizon the result holds exactly one monitor action when
\* it holds no maneuver, and no monitor action when it holds a maneuver;
\* it holds nothing else.
C9_MonitorOnlyWithoutManeuver ==
  (EngineRan("analyzeConjunction")
     /\ Val(Val(engineIn).alert.tca) - now <= 72 * 3600000) =>
    LET out == Val(engineOut)
        maneuvers == CountType(out, "maneuver")
        monitors == CountType(out, "monitor")
    IN /\ Len(out) = maneuvers + monitors
       /\ (maneuvers = 0 => monitors = 1)
       /\ (maneuvers > 0 => monitors = 0)

\* C9 witness: a call within the horizon returned maneuvers and no monitor.
C9_Witness ==
  /\ EngineRan("analyzeConjunction")
  /\ CountType(Val(engineOut), "maneuver") = 2
  /\ CountType(Val(engineOut), "monitor") = 0

\* C10: the delta-V of an emitted in-plane maneuver is min(sigma_tan x 0.1,
\* 10 m/s) and of an out-of-plane maneuver min(sigma_norm x 0.1, 5 m/s)
\* (here in tenths of a m/s), so it lies between 0 and its cap.
C10_DeltaVCapped ==
  EngineRan("analyzeConjunction") =>
    LET out == Val(engineOut)
        alert == Val(engineIn).alert
    IN \A k \in 1..Len(out) :
         out[k].type = "maneuver" =>
           LET dv == Val(out[k].deltaV_mps)
               inPlane == out[k].rationale[1] = "In-plane"
               sigma == IF inPlane THEN Val(alert.sigma_tan_km)
                        ELSE Val(alert.sigma_norm_km)
               cap == IF inPlane THEN 100 ELSE 50
           IN /\ dv = (IF sigma < cap THEN sigma ELSE cap)
              /\ 0 <= dv
              /\ dv <= cap

\* C10 witness: an in-plane maneuver was emitted for a sigma_tan above
\* 100 km, where the cap decides the delta-V.
C10_Witness ==
  /\ EngineRan("analyzeConjunction")
  /\ \E k \in 1..Len(Val(engineOut)) :
       /\ Val(engineOut)[k].type = "maneuver"
       /\ Val(engineOut)[k].rationale[1] = "In-plane"
       /\ Val(Val(engineIn).alert.sigma_tan_km) > 100

\* C11: every action returned by analyzeConjunction or analyzeSpaceWeather
\* that carries both window bounds has window_start strictly before
\* window_end, and a maneuver window ends before the TCA.
C11_WindowStartBeforeEnd ==
  (~IsNull(engineIn) /\ ~IsNull(engineOut)) =>
    LET out == Val(engineOut)
    IN \A k \in 1..Len(out) :
         (~IsNull(out[k].window_start) /\ ~IsNull(out[k].window_end)) =>
           /\ Val(out[k].window_start) < Val(out[k].window_end)
           /\ (out[k].type = "maneuver" =>
                 Val(out[k].window_end) < Val(Val(engineIn).alert.tca))

\* C12: in every engine output a maneuver action has delta-V, direction, a
\* negative expected risk delta and both window bounds; a safe_mode action
\* has both window bounds and null delta-V, direction and risk delta; a
\* monitor action has all five null.
C12_FieldsFollowKind ==
  (~IsNull(engineIn) /\ ~IsNull(engineOut)) =>
    LET out == Val(engineOut)
    IN \A k \in 1..Len(out) :
         /\ out[k].type \in {"maneuver", "safe_mode", "monitor"}
         /\ (out[k].type = "maneuver" =>
               /\ ~IsNull(out[k].deltaV_mps)
               /\ ~IsNull(out[k].direction)
               /\ ~IsNull(out[k].expected_risk_delta)
               /\ Val(out[k].expected_risk_delta) < 0
               /\ ~IsNull(out[k].window_start)
               /\ ~IsNull(out[k].window_end))
         /\ (out[k].type = "safe_mode" =>
               /\ IsNull(out[k].deltaV_mps)
               /\ IsNull(out[k].direction)
               /\ IsNull(out[k].expected_risk_delta)
               /\ ~IsNull(out[k].window_start)
               /\ ~IsNull(out[k].window_end))
         /\ (out[k].type = "monitor" =>
               /\ IsNull(out[k].deltaV_mps)
               /\ IsNull(out[k].direction)
               /\ IsNull(out[k].expected_risk_delta)
               /\ IsNull(out[k].window_start)
               /\ IsNull(out[k].window_end))

\* C12 witness: a conjunction call within the horizon returned the monitor
\* action.
C12_Witness ==
  /\ EngineRan("analyzeConjunction")
  /\ CountType(Val(engineOut), "monitor") = 1

\* The positions of the actions of one origin in an engine output
ActionsTagged(out, tag) == {k \in 1..Len(out) : out[k].id[1] = tag}

\* The Kp condition and the CME condition of an analyzeSpaceWeather call
KpConditionHolds ==
  LET alert == Val(engineIn).alert
  IN ~IsNull(alert.kp)
       /\ Val(alert.kp) >= thresholds.space_weather.kp_warning

CmeConditionHolds ==
  LET alert == Val(engineIn).alert
  IN /\ ~IsNull(alert.cme_eta_start)
     /\ ~IsNull(alert.cme_eta_end)
     /\ Val(alert.cme_eta_start) - now
          < thresholds.space_weather.cme_hours_to_eta_critical * 3600000

\* C13: analyzeSpaceWeather emits one Kp safe_mode action, with window
\* from now to now + 24 hours, exactly when the alert's Kp is present and
\* greater than or equal to the Kp warning threshold, for every Kp in 0..9
\* and every threshold in 0..9.
C13_KpSafeModeIffAtOrAboveThreshold ==
  EngineRan("analyzeSpaceWeather") =>
    LET out == Val(engineOut)
        kpActions == ActionsTagged(out, "safe-mode-kp")
    IN /\ (kpActions # {}) <=> KpConditionHolds
       /\ Cardinality(kpActions) <= 1
       /\ \A k \in kpActions :
            /\ out[k].type = "safe_mode"
            /\ out[k].window_start = Some(now)
            /\ out[k].window_end = Some(now + 24 * 3600000)

\* C14: analyzeSpaceWeather emits one CME safe_mode action, with window
\* from now to the CME's estimated end time, exactly when both bounds of
\* the CME arrival window are present and the time from now to
\* cme_eta_start is below the critical-hours threshold, a start in the past
\* included.
C14_CmeSafeModeIffBelowCritical ==
  EngineRan("analyzeSpaceWeather") =>
    LET out == Val(engineOut)
        cmeActions == ActionsTagged(out, "safe-mode-cme")
    IN /\ (cmeActions # {}) <=> CmeConditionHolds
       /\ Cardinality(cmeActions) <= 1
       /\ \A k \in cmeActions :
            /\ out[k].type = "safe_mode"
            /\ out[k].window_start = Some(now)
            /\ out[k].window_end = Val(engineIn).alert.cme_eta_end

\* C14 witness: a CME that started an hour ago got its safe_mode action.
C14_Witness ==
  /\ EngineRan("analyzeSpaceWeather")
  /\ ~IsNull(Val(engineIn).alert.cme_eta_start)
  /\ Val(Val(engineIn).alert.cme_eta_start) < now
  /\ ActionsTagged(Val(engineOut), "safe-mode-cme") # {}

\* C15: analyzeSpaceWeather returns as many actions as conditions hold
\* (the Kp condition, the CME condition), all of them safe_mode actions.
C15_OneActionPerCondition ==
  EngineRan("analyzeSpaceWeather") =>
    LET out == Val(engineOut)
    IN /\ Len(out) = (IF KpConditionHolds THEN 1 ELSE 0)
                       + (IF CmeConditionHolds THEN 1 ELSE 0)
       /\ \A k \in 1..Len(out) : out[k].type = "safe_mode"

\* C16: after updateThresholds(T) the active thresholds are exactly T, they
\* change in no other step, every later space-weather analysis decides and
\* cites by the active set, and the update leaves the ledger as it was.
C16_UpdateReplacesWholeSet ==
  [][LET updated == ~IsNull(lastReply')
                      /\ Val(lastReply').op = "updateThresholds"
         suggested == ~IsNull(lastReply')
                        /\ Val(lastReply').op = "suggest"
                        /\ Val(lastReply').status = 200
                        /\ Val(Val(lastReply').data).alertType = "space_weather"
     IN /\ (thresholds' # thresholds => updated)
        /\ (updated => /\ thresholds' = Val(lastReply').newThresholds
                       /\ decisions' = decisions)
        /\ (suggested =>
              LET d == Val(Val(lastReply').data)
                  kpActions == ActionsTagged(d.suggestedActions, "safe-mode-kp")
              IN /\ (kpActions # {}) <=>
                      (~IsNull(d.alertData.kp)
                         /\ Val(d.alertData.kp)
                              >= thresholds'.space_weather.kp_warning)
                 /\ \A k \in kpActions :
                      d.suggestedActions[k].rationale[3]
                        = thresholds'.space_weather.kp_warning)]_vars

\* C16 witness: the update is active, the decision recorded before it still
\* holds the Kp action issued under the default set, and the same alert
\* analysed after it got none.
C16_Witness ==
  /\ thresholds = ThresholdUpdate
  /\ Len(decisions) = 2
  /\ decisions[1].alertType = "space_weather"
  /\ decisions[2].alertType = "space_weather"
  /\ decisions[1].alertData = decisions[2].alertData
  /\ Len(decisions[1].suggestedActions) = 1
  /\ Len(decisions[2].suggestedActions) = 0

\* C17: classification by miss distance gives High below 5 km, Medium from
\* 5 km to below 10 km and Low from 10 km on, one value for every distance.
C17_DistanceBands ==
  EngineRan("computeConjunctionRisk") =>
    \A i \in 1..2 :
      LET d == IF i = 1 THEN Val(engineIn).d1 ELSE Val(engineIn).d2
          risk == Val(engineOut)[i]
      IN /\ risk \in {"High", "Medium", "Low"}
         /\ (risk = "High") <=> (d < 5000)
         /\ (risk = "Medium") <=> (5000 <= d /\ d < 10000)
         /\ (risk = "Low") <=> (d >= 10000)

\* C17 witness: 5 km itself was classified Medium and 10 km itself Low.
C17_Witness ==
  /\ EngineRan("computeConjunctionRisk")
  /\ Val(engineIn).d1 = 5000
  /\ Val(engineIn).d2 = 10000
  /\ Val(engineOut) = <<"Medium", "Low">>

\* C18: a supplied probability of collision above the critical threshold
\* makes the severity Critical whatever the miss distance.
C18_PcEscalatesToCritical ==
  (EngineRan("conjunctionSeverity")
     /\ ~IsNull(Val(engineIn).pc)
     /\ Val(Val(engineIn).pc) > thresholds.conjunction.critical_pc) =>
    Val(engineOut) = <<"Critical", "Critical">>

\* C18 witness: a 50 km miss distance with a probability above the
\* threshold was classified Critical.
C18_Witness ==
  /\ EngineRan("conjunctionSeverity")
  /\ Val(engineIn).d1 = 50000
  /\ ~IsNull(Val(engineIn).pc)
  /\ Val(Val(engineIn).pc) > thresholds.conjunction.critical_pc
  /\ Val(engineOut)[1] = "Critical"

\* The order Low < Medium < High < Critical
SeverityRank(severity) ==
  CASE severity = "Low" -> 1
    [] severity = "Medium" -> 2
    [] severity = "High" -> 3
    [] severity = "Critical" -> 4

\* C19: for a fixed probability of collision and distances d1 < d2 the
\* severity classified for d1 is at least the severity classified for d2,
\* by either classification.
C19_SeverityMonotoneInDistance ==
  ((EngineRan("computeConjunctionRisk") \/ EngineRan("conjunctionSeverity"))
     /\ Val(engineIn).d1 < Val(engineIn).d2) =>
    SeverityRank(Val(engineOut)[1]) >= SeverityRank(Val(engineOut)[2])

\* C19 witness: the nearer of two distances was classified High and the
\* farther one Low.
C19_Witness ==
  /\ EngineRan("computeConjunctionRisk")
  /\ Val(engineIn).d1 < Val(engineIn).d2
  /\ Val(engineOut) = <<"High", "Low">>

\* A matcher call on a single event, and whether its result holds an alert
\* for the pair of that event and the tracked object
SingleEventCall(op) ==
  EngineRan(op) /\ Len(Val(engineIn).events) = 1

PairHasAlert(satellite, event) ==
  \E k \in 1..Len(Val(engineOut)) :
    Val(engineOut)[k].id = <<"conj", satellite.id, event.tca>>

\* The identity rule of a matcher (a label of the event is the object's
\* name, compared case-insensitively: contained in the documented matcher,
\* equal in the name-only one) and the proximity rule
IdentityRule(op, satellite, event) ==
  LET name == toLowerCase(satellite.name)
      labelA == toLowerCase(event.objectA)
      labelB == toLowerCase(event.objectB)
  IN IF op = "attachEventsToSatellites"
     THEN includes(labelA, name) \/ includes(labelB, name)
     ELSE labelA = name \/ labelB = name

ProximityRule(satellite, event) ==
  /\ event.altitudeKm - satellite.altitudeKm <= 50
  /\ satellite.altitudeKm - event.altitudeKm <= 50

MatcherRule(op, satellite, event) ==
  IF op = "attachEventsToSatellites"
  THEN IdentityRule(op, satellite, event) \/ ProximityRule(satellite, event)
  ELSE IdentityRule(op, satellite, event)

\* What an alert shows of the pair it was made for
AlertOfPair(alert, satellite, event) ==
  /\ alert.id = <<"conj", satellite.id, event.tca>>
  /\ alert.satellite = satellite.name
  /\ alert.message[2] = event.objectA
  /\ alert.message[3] = event.objectB
  /\ alert.severity = computeConjunctionRisk(event.missDistanceKm)

\* C21: the documented matcher's result holds one alert per satisfied
\* (tracked object, event) pair and none for an unsatisfied pair: as many
\* alerts as satisfied pairs in all, and for every tracked object and every
\* event as many alerts showing them as there are satisfied pairs of that
\* object with an event showing the same.
C21_OneAlertPerSatisfiedPair ==
  EngineRan("attachEventsToSatellites") =>
    LET out == Val(engineOut)
        satellites == Val(engineIn).satellites
        events == Val(engineIn).events
        op == "attachEventsToSatellites"
        satisfied == {p \in (1..Len(satellites)) \X (1..Len(events)) :
                        MatcherRule(op, satellites[p[1]], events[p[2]])}
    IN /\ Len(out) = Cardinality(satisfied)
       /\ \A i \in 1..Len(satellites) : \A j \in 1..Len(events) :
            Cardinality({k \in 1..Len(out) :
                           AlertOfPair(out[k], satellites[i], events[j])})
              = Cardinality({p \in satisfied :
                               /\ p[1] = i
                               /\ AlertOfPair(
                                    conjunctionAlert(satellites[i],
                                                     events[p[2]], "", now),
                                    satellites[i], events[j])})

\* C21 witness: one event matched both tracked objects, one of them by
\* name and by altitude at once, and the result holds exactly two alerts.
C21_Witness ==
  /\ EngineRan("attachEventsToSatellites")
  /\ Len(Val(engineIn).satellites) = 2
  /\ Len(Val(engineIn).events) = 1
  /\ \E i \in 1..2 :
       /\ IdentityRule("attachEventsToSatellites",
                       Val(engineIn).satellites[i], Val(engineIn).events[1])
       /\ ProximityRule(Val(engineIn).satellites[i], Val(engineIn).events[1])
  /\ Len(Val(engineOut)) = 2

\* C29: within the result of one conjunction-matcher call the alert
\* identifiers are pairwise distinct (the tracked objects have distinct
\* ids; the events are any list of different events, two events sharing a
\* TCA included).
C29_AlertIdsDistinctInCall ==
  ((EngineRan("attachEventsToSatellites")
      \/ EngineRan("attachEventsToSatellitesByName"))
     /\ \A i \in 1..Len(Val(engineIn).events) :
          \A j \in 1..Len(Val(engineIn).events) :
            i # j => Val(engineIn).events[i] # Val(engineIn).events[j]) =>
    \A k \in 1..Len(Val(engineOut)) : \A m \in 1..Len(Val(engineOut)) :
      k # m => Val(engineOut)[k].id # Val(engineOut)[m].id

\* The weather event of a call is severe: there is a latest reading and its
\* Kp is at or above the alert level 6
SevereWeather ==
  LET kpList == Val(engineIn).kpList
  IN /\ Len(kpList) > 0
     /\ ~IsNull(kpList[Len(kpList)].kp)
     /\ Val(kpList[Len(kpList)].kp) >= 60

\* The fan-out of a result over the N tracked objects of the call
FansOut ==
  LET out == Val(engineOut)
      satellites == Val(engineIn).satellites
  IN /\ Len(out) = Len(satellites)
     /\ \A i \in 1..Len(out) :
          /\ out[i].satellite = Some(satellites[i].name)
          /\ out[i].severity = out[1].severity
          /\ out[i].message = out[1].message
     /\ \A i \in 1..Len(out) : \A j \in 1..Len(out) :
          i # j => out[i].id # out[j].id

C22_SameIdAcrossCalls ==
  \A p \in replies : \A q \in replies : p.ids = q.ids

\* C22 witness: loadData ran at two instants and set a conjunction alert.
C22_Witness ==
  \E p \in replies : \E q \in replies :
    /\ p.t # q.t
    /\ \E k \in 1..Len(p.ids) : p.ids[k][1] = "conj"

\* C30: an acknowledged alert stays acknowledged: every step leaves each
\* acknowledged alert that is still listed (by its id) acknowledged, the
\* refreshes included.
C30_AcknowledgedStays ==
  [][\A k \in 1..Len(Val(engineOut)) :
       Val(engineOut)[k].acknowledged =>
         \A m \in 1..Len(Val(engineOut')) :
           Val(engineOut')[m].id = Val(engineOut)[k].id
             => Val(engineOut')[m].acknowledged]_vars

\* A suggest body the route must reject: an unrecognised alert type, or
\* alert data missing a required field
RejectedBody(body) ==
  \/ body.alertType \notin {"conjunction", "space_weather"}
  \/ (body.alertType = "conjunction" /\ IsNull(body.alertData.tca))
  \/ (body.alertType = "space_weather" /\ IsNull(body.alertData.type))

\* C26: a suggest request with an unrecognised alert type or with alert
\* data missing a required field is answered with an error (status 400, no
\* decision in the reply) and leaves the ledger as it was; every step whose
\* reply is such an error records no decision.
C26_InvalidSuggestRejected ==
  [][/\ \A body \in SuggestBodies(now) :
          RejectedBody(body) =>
            LET out == suggestOutcome(decisions, body.alertType,
                                      body.alertData, thresholds, now, nonce)
            IN /\ out.reply.status = 400
               /\ ~IsNull(out.reply.error)
               /\ IsNull(out.reply.data)
               /\ out.decisions = decisions
     /\ (~IsNull(lastReply')
           /\ Val(lastReply').op = "suggest"
           /\ Val(lastReply').status = 400) => decisions' = decisions]_vars

\* C26 witness: a suggest request was just rejected while the ledger holds
\* a decision recorded earlier.
C26_Witness ==
  /\ ~IsNull(lastReply)
  /\ Val(lastReply).op = "suggest"
  /\ Val(lastReply).status = 400
  /\ Val(lastReply).error = Some("Invalid alert data")
  /\ Len(decisions) = 1

\* C28: a decision of the ledger is executed exactly when it has both an
\* execution timestamp and an execution log; a pending one has neither.
C28_ExecutedIffStamped ==
  \A i \in 1..Len(decisions) :
    /\ (decisions[i].status = "executed")
         <=> (~IsNull(decisions[i].executedAt)
                /\ ~IsNull(decisions[i].executionLog))
    /\ (decisions[i].status = "pending")
         => (IsNull(decisions[i].executedAt)
               /\ IsNull(decisions[i].executionLog))

\* C28 witness: the ledger holds a pending decision and an executed one.
C28_Witness ==
  /\ Len(decisions) = 2
  /\ decisions[1].status = "pending"
  /\ decisions[2].status = "executed"
  /\ ~IsNull(decisions[2].executedAt)

\* C27: for an alert within the horizon whose three sigmas are supplied,
\* the in-plane maneuver is emitted exactly when its improvement (from
\* sigma_tan) is positive and the out-of-plane maneuver exactly when its
\* improvement (from sigma_norm) is positive, whatever the other sigmas
\* are, 0 included.
C27_ManeuverCandidatesIndependent ==
  (EngineRan("analyzeConjunction")
     /\ Val(Val(engineIn).alert.tca) - now <= 72 * 3600000
     /\ ~IsNull(Val(engineIn).alert.sigma_ran_km)
     /\ ~IsNull(Val(engineIn).alert.sigma_tan_km)
     /\ ~IsNull(Val(engineIn).alert.sigma_norm_km)) =>
    LET out == Val(engineOut)
        alert == Val(engineIn).alert
        ric == analyzeRIC(Val(alert.sigma_ran_km), Val(alert.sigma_tan_km),
                          Val(alert.sigma_norm_km))
        emitted(kind) == \E k \in 1..Len(out) :
                           /\ out[k].type = "maneuver"
                           /\ out[k].rationale[1] = kind
    IN /\ emitted("In-plane") <=> (ric.inPlaneImprovement > 0)
       /\ emitted("Out-of-plane") <=> (ric.outOfPlaneImprovement > 0)

\* The relative position of a calculateRIC call, squared in magnitude
RelPosSquared ==
  LET c == Val(engineIn).call
  IN NormSquared([x |-> c.secondaryPos.x - c.primaryPos.x,
                  y |-> c.secondaryPos.y - c.primaryPos.y,
                  z |-> c.secondaryPos.z - c.primaryPos.z])

\* C24: for a relative position of nonzero magnitude and a nonzero primary
\* velocity, radial^2 + inTrack^2 + crossTrack^2 of the result equals the
\* squared magnitude of the relative position within 1e-6 relative.
C24_RICReconstruction ==
  (EngineRan("calculateRIC")
     /\ RelPosSquared # 0
     /\ NormSquared(Val(engineIn).call.primaryVel) # 0) =>
    LET out == Val(engineOut)
        sum == Plus(Plus(Times(out.radial, out.radial),
                         Times(out.inTrack, out.inTrack)),
                    Times(out.crossTrack, out.crossTrack))
        diff == Minus(sum, Num(RelPosSquared))
        error == IF diff[1] < 0 THEN Minus(Num(0), diff) ELSE diff
    IN LessEq(error, Times(<<1, 1000000>>, Num(RelPosSquared)))

\* C25: calculateRIC returns radial = inTrack = crossTrack = 0 whenever the
\* primary velocity is the zero vector or the two positions coincide,
\* whatever the other inputs are.
C25_DegenerateRICIsZero ==
  (EngineRan("calculateRIC")
     /\ (RelPosSquared = 0
           \/ NormSquared(Val(engineIn).call.primaryVel) = 0)) =>
    /\ Val(engineOut).radial[1] = 0
    /\ Val(engineOut).inTrack[1] = 0
    /\ Val(engineOut).crossTrack[1] = 0

\* C25 witness: a call with a zero primary velocity and distinct positions
\* returned zeros.
C25_Witness ==
  /\ EngineRan("calculateRIC")
  /\ NormSquared(Val(engineIn).call.primaryVel) = 0
  /\ RelPosSquared # 0
  /\ Val(engineOut).radial[1] = 0

====
